---- MODULE Spec2Model ----
(***************************************************************************)
(* Model of blurz: the signal classifier BluetoothEvent::from              *)
(* (src/src/bluetooth_event.rs) and the BluetoothAdapter accessors with    *)
(* the Modalias parser (src/src/bluetooth_adapter.rs).                     *)
(***************************************************************************)
EXTENDS Integers, Sequences, FiniteSets, TLC

VARIABLES conn_msg, event, pc, adapter, props, bus_log, last_op, result, ncalls

vars == <<conn_msg, event, pc, adapter, props, bus_log, last_op, result, ncalls>>

(***************************************************************************)
(* Option<T> and Result<T, E> of the Rust code.                            *)
(***************************************************************************)
Some(x) == [some |-> TRUE, val |-> x]

NoneOpt == [some |-> FALSE]

Ok(x) == [kind |-> "Ok", val |-> x]

Err(e) == [kind |-> "Err", err |-> e]

(***************************************************************************)
(* Bounds of the model.                                                    *)
(***************************************************************************)
MaxValueLen == 1

MaxTailLen == 1

MaxCalls == 2

(***************************************************************************)
(* D-Bus values.  A value carries its type tag and a payload field named   *)
(* after the tag, as the dbus crate's RefArg values carry their own type.  *)
(***************************************************************************)
VBool(b) == [tag |-> "Bool", b |-> b]

VString(s) == [tag |-> "String", s |-> s]

VBytes(y) == [tag |-> "Bytes", y |-> y]

VInt16(i) == [tag |-> "Int16", i |-> i]

VUInt16(u) == [tag |-> "UInt16", u |-> u]

VUInt32(w) == [tag |-> "UInt32", w |-> w]

VObjectPath(o) == [tag |-> "ObjectPath", o |-> o]

VStrArray(a) == [tag |-> "StrArray", a |-> a]

VDict(d) == [tag |-> "DictSV", d |-> d]

Absent == [tag |-> "Absent"]

(***************************************************************************)
(* The signals handed to the classifier: a body of D-Bus arguments and an  *)
(* optional object path header.                                            *)
(***************************************************************************)
Paths == {"/org/bluez/hci0", "/org/bluez/hci0/dev_00_11"}

PathOpts == {NoneOpt} \cup {Some(p) : p \in Paths}

Interfaces == {"org.bluez.Adapter1", "org.bluez.Device1"}

ByteVals == {0, 255}

ByteSeqs == UNION {[1..n -> ByteVals] : n \in 0..MaxValueLen}

BoolOpts == {Absent, VBool(TRUE), VBool(FALSE), VString("x")}

FlagOpts == {Absent, VBool(TRUE), VInt16(1)}

ValueOpts == {Absent, VBool(TRUE)} \cup {VBytes(y) : y \in ByteSeqs}

RssiOpts == {Absent, VInt16(-70), VUInt16(5)}

AdapterOpts == {Absent, VObjectPath("/org/bluez/hci1")}

AliasOpts == {Absent, VString("alias")}

MkBag(f) == [k \in {n \in DOMAIN f : f[n].tag # "Absent"} |-> f[k]]

Bags ==
    {MkBag([Powered |-> p, Discovering |-> d, Connected |-> c,
            ServicesResolved |-> s, Value |-> v, RSSI |-> r,
            Adapter |-> a, Alias |-> l]) :
        p \in BoolOpts, d \in BoolOpts, c \in FlagOpts, s \in FlagOpts,
        v \in ValueOpts, r \in RssiOpts, a \in AdapterOpts, l \in AliasOpts}

Shapes == {"changed", "changed_invalidated", "swapped", "strings", "name_only", "empty"}

Body(shape, iface, bag) ==
    CASE shape = "changed" -> <<VString(iface), VDict(bag)>>
      [] shape = "changed_invalidated" -> <<VString(iface), VDict(bag), VStrArray(<<>>)>>
      [] shape = "swapped" -> <<VDict(bag), VString(iface)>>
      [] shape = "strings" -> <<VString(iface), VString("x")>>
      [] shape = "name_only" -> <<VString(iface)>>
      [] OTHER -> <<>>

Messages ==
    {[body |-> Body(sh, i, b), path |-> p] :
        sh \in Shapes, i \in Interfaces, b \in Bags, p \in PathOpts}

(***************************************************************************)
(* BluetoothEvent::from                                                    *)
(***************************************************************************)
\* conn_msg.read2::<&str, HashMap<String, Variant<Box<dyn RefArg>>>>()
read2(msg) ==
    IF /\ Len(msg.body) >= 2
       /\ msg.body[1].tag = "String"
       /\ msg.body[2].tag = "DictSV"
    THEN Ok(<<msg.body[1].s, msg.body[2].d>>)
    ELSE Err("TypeMismatchError")

\* properties.get(name) followed by cast::<T>(&value.0)
get_cast(properties, name, tag) ==
    IF name \in DOMAIN properties /\ properties[name].tag = tag
    THEN Some(properties[name])
    ELSE NoneOpt

NoEvent == [variant |-> "None"]

\* classify with the first two if-let blocks in the opposite order.
classify_swapped(properties, object_path) ==
    IF get_cast(properties, "Discovering", "Bool").some
    THEN Some([variant |-> "Discovering", object_path |-> object_path,
               discovering |-> get_cast(properties, "Discovering", "Bool").val.b])
    ELSE IF get_cast(properties, "Powered", "Bool").some
    THEN Some([variant |-> "Powered", object_path |-> object_path,
               powered |-> get_cast(properties, "Powered", "Bool").val.b])
    ELSE IF get_cast(properties, "Connected", "Bool").some
    THEN Some([variant |-> "Connected", object_path |-> object_path,
               connected |-> get_cast(properties, "Connected", "Bool").val.b])
    ELSE IF get_cast(properties, "ServicesResolved", "Bool").some
    THEN Some([variant |-> "ServicesResolved", object_path |-> object_path,
               services_resolved |-> get_cast(properties, "ServicesResolved", "Bool").val.b])
    ELSE IF get_cast(properties, "Value", "Bytes").some
    THEN Some([variant |-> "Value", object_path |-> object_path,
               value |-> get_cast(properties, "Value", "Bytes").val.y])
    ELSE IF get_cast(properties, "RSSI", "Int16").some
    THEN Some([variant |-> "RSSI", object_path |-> object_path,
               rssi |-> get_cast(properties, "RSSI", "Int16").val.i])
    ELSE Some([variant |-> "None"])

\* The chain of if-let blocks, in source order.
classify(properties, object_path) ==
    IF get_cast(properties, "Powered", "Bool").some
    THEN Some([variant |-> "Powered", object_path |-> object_path,
               powered |-> get_cast(properties, "Powered", "Bool").val.b])
    ELSE IF get_cast(properties, "Discovering", "Bool").some
    THEN Some([variant |-> "Discovering", object_path |-> object_path,
               discovering |-> get_cast(properties, "Discovering", "Bool").val.b])
    ELSE IF get_cast(properties, "Connected", "Bool").some
    THEN Some([variant |-> "Connected", object_path |-> object_path,
               connected |-> get_cast(properties, "Connected", "Bool").val.b])
    ELSE IF get_cast(properties, "ServicesResolved", "Bool").some
    THEN Some([variant |-> "ServicesResolved", object_path |-> object_path,
               services_resolved |-> get_cast(properties, "ServicesResolved", "Bool").val.b])
    ELSE IF get_cast(properties, "Value", "Bytes").some
    THEN Some([variant |-> "Value", object_path |-> object_path,
               value |-> get_cast(properties, "Value", "Bytes").val.y])
    ELSE IF get_cast(properties, "RSSI", "Int16").some
    THEN Some([variant |-> "RSSI", object_path |-> object_path,
               rssi |-> get_cast(properties, "RSSI", "Int16").val.i])
    ELSE Some(NoEvent)

\* Variants of BluetoothEvent::from with one plausible slip each.
RecognizedNames == {"Powered", "Discovering", "Connected", "ServicesResolved", "Value", "RSSI"}

CastTag(name) ==
    CASE name = "Value" -> "Bytes"
      [] name = "RSSI" -> "Int16"
      [] OTHER -> "Bool"

\* a wrongly tagged recognized property aborts the classification
BluetoothEvent_from_strict(msg) ==
    IF read2(msg).kind = "Ok"
    THEN IF msg.path.some
         THEN IF \E n \in RecognizedNames \cap DOMAIN read2(msg).val[2] :
                    read2(msg).val[2][n].tag # CastTag(n)
              THEN NoneOpt
              ELSE classify(read2(msg).val[2], msg.path.val)
         ELSE NoneOpt
    ELSE NoneOpt

\* nothing recognized is reported on the absent channel
BluetoothEvent_from_nofallback(msg) ==
    IF read2(msg).kind = "Ok"
    THEN IF msg.path.some
         THEN IF classify(read2(msg).val[2], msg.path.val) = Some(NoEvent)
              THEN NoneOpt
              ELSE classify(read2(msg).val[2], msg.path.val)
         ELSE NoneOpt
    ELSE NoneOpt

\* a decode failure is reported as BluetoothEvent::None
BluetoothEvent_from_errsome(msg) ==
    IF read2(msg).kind = "Ok"
    THEN IF msg.path.some
         THEN classify(read2(msg).val[2], msg.path.val)
         ELSE NoneOpt
    ELSE Some(NoEvent)

\* the object path is looked up in the property bag first
BluetoothEvent_from_bagpath(msg) ==
    IF read2(msg).kind = "Ok"
    THEN IF msg.path.some
         THEN classify(read2(msg).val[2],
                       IF "Adapter" \in DOMAIN read2(msg).val[2]
                       THEN read2(msg).val[2]["Adapter"].o
                       ELSE msg.path.val)
         ELSE NoneOpt
    ELSE NoneOpt

\* the path is only required once an event needs it
BluetoothEvent_from_latepath(msg) ==
    IF read2(msg).kind = "Ok"
    THEN IF msg.path.some
         THEN classify(read2(msg).val[2], msg.path.val)
         ELSE IF classify(read2(msg).val[2], "") = Some(NoEvent)
              THEN Some(NoEvent)
              ELSE NoneOpt
    ELSE NoneOpt

\* match result { Ok((_, properties)) => { let object_path = conn_msg.path()?...; ... }
\*                Err(_err) => None }
BluetoothEvent_from(msg) ==
    IF read2(msg).kind = "Ok"
    THEN IF msg.path.some
         THEN classify(read2(msg).val[2], msg.path.val)
         ELSE NoneOpt
    ELSE NoneOpt

(***************************************************************************)
(* Strings that the parser slices are sequences of one-character strings.  *)
(* Every character of the model is ASCII, one byte each, so the byte       *)
(* offsets of the Rust slices are character offsets.                       *)
(***************************************************************************)
\* hex crate: value of one hex digit of either case, -1 for any other character
HexVal(c) ==
    CASE c = "0" -> 0 [] c = "1" -> 1 [] c = "2" -> 2 [] c = "3" -> 3
      [] c = "4" -> 4 [] c = "5" -> 5 [] c = "6" -> 6 [] c = "7" -> 7
      [] c = "8" -> 8 [] c = "9" -> 9
      [] c = "a" -> 10 [] c = "b" -> 11 [] c = "c" -> 12
      [] c = "d" -> 13 [] c = "e" -> 14 [] c = "f" -> 15
      [] c = "A" -> 10 [] c = "B" -> 11 [] c = "C" -> 12
      [] c = "D" -> 13 [] c = "E" -> 14 [] c = "F" -> 15
      [] OTHER -> -1

\* Vec::<u8>::from_hex: two hex digits per byte, high digit first
from_hex(s) ==
    IF Len(s) % 2 # 0
    THEN Err("OddLength")
    ELSE IF \E i \in 1..Len(s) : HexVal(s[i]) < 0
    THEN Err("InvalidHexCharacter")
    ELSE Ok([i \in 1..(Len(s) \div 2) |->
                HexVal(s[2 * i - 1]) * 16 + HexVal(s[2 * i])])

\* m.split(':').collect(): the segments between the colons, at least one
RECURSIVE split(_)
split(m) ==
    IF \E i \in 1..Len(m) : m[i] = ":"
    THEN LET k == CHOOSE i \in 1..Len(m) :
                    m[i] = ":" /\ \A j \in 1..(i - 1) : m[j] # ":"
         IN  <<SubSeq(m, 1, k - 1)>> \o split(SubSeq(m, k + 1, Len(m)))
    ELSE <<m>>

Panic(why) == [kind |-> "Panic", why |-> why]

\* s[a..b] of a Rust string: the bytes a..b-1, a panic when b is past the end
slice(s, a, b) ==
    IF b > Len(s) THEN Panic("byte index out of range") ELSE Ok(SubSeq(s, a + 1, b))

\* the high byte scaled by 16 instead of 16 * 16
combine_16(x) == x[1] * 16 + x[2]

\* (x[0] as u32) * 16 * 16 + (x[1] as u32): the operands are bytes, so the
\* sum is at most 65535 and never wraps the u32
combine(x) == x[1] * 16 * 16 + x[2]

\* the body of get_modalias with the letters v, p, d checked as well
parse_modalias_letters(m) ==
    IF Len(split(m)) < 2
    THEN Panic("index out of bounds")
    ELSE LET ids == split(m) IN
    IF Len(ids[2]) < 15 THEN Panic("byte index out of range")
    ELSE IF ids[2][1] # "v" \/ ids[2][6] # "p" \/ ids[2][11] # "d"
    THEN Err("MalformedModalias")
    ELSE IF from_hex(SubSeq(ids[2], 2, 5)).kind = "Err"
    THEN from_hex(SubSeq(ids[2], 2, 5))
    ELSE IF from_hex(SubSeq(ids[2], 7, 10)).kind = "Err"
    THEN from_hex(SubSeq(ids[2], 7, 10))
    ELSE IF from_hex(SubSeq(ids[2], 12, 15)).kind = "Err"
    THEN from_hex(SubSeq(ids[2], 12, 15))
    ELSE Ok(<<ids[1], combine(from_hex(SubSeq(ids[2], 2, 5)).val),
              combine(from_hex(SubSeq(ids[2], 7, 10)).val),
              combine(from_hex(SubSeq(ids[2], 12, 15)).val)>>)

\* The statements of get_modalias after the string is read: split, then the
\* three slices and from_hex calls in order, each slice panicking and each
\* from_hex error returning before the next statement runs.
parse_modalias(m) ==
    LET ids == split(m) IN
    IF Len(ids) < 2
    THEN Panic("index out of bounds")
    ELSE
    LET source == ids[1]
        vs == slice(ids[2], 1, 5)
    IN
    IF vs.kind = "Panic" THEN vs
    ELSE IF from_hex(vs.val).kind = "Err" THEN from_hex(vs.val)
    ELSE
    LET vendor == from_hex(vs.val).val
        ps == slice(ids[2], 6, 10)
    IN
    IF ps.kind = "Panic" THEN ps
    ELSE IF from_hex(ps.val).kind = "Err" THEN from_hex(ps.val)
    ELSE
    LET product == from_hex(ps.val).val
        ds == slice(ids[2], 11, 15)
    IN
    IF ds.kind = "Panic" THEN ds
    ELSE IF from_hex(ds.val).kind = "Err" THEN from_hex(ds.val)
    ELSE
    LET device == from_hex(ds.val).val
    IN Ok(<<source, combine(vendor), combine(product), combine(device)>>)

(***************************************************************************)
(* The bus behind the adapter.  props holds the adapter's properties as    *)
(* the daemon stores them; each round trip ends with an outcome chosen by  *)
(* the environment.                                                        *)
(***************************************************************************)
ADAPTER_INTERFACE == "org.bluez.Adapter1"

BusOutcomes == {"ok", "RemoteLookupFailure", "Timeout"}

\* the outcomes the bus would give to a first and to a second round trip of
\* one operation
OutcomeSeqs == [1..2 -> BusOutcomes]

\* one round trip as the bus saw it, with the outcome the bus gave it
BusCall(kind, interface, object_path, member, args, timeout_ms, outcome) ==
    [kind |-> kind, interface |-> interface, object_path |-> object_path,
     member |-> member, args |-> args, timeout_ms |-> timeout_ms,
     outcome |-> outcome]

\* bluetooth_utils::get_property: one property read on the connection
bluetooth_utils_get_property(bus, interface, object_path, prop, outcome) ==
    [calls |-> <<BusCall("Get", interface, object_path, prop, <<>>, NoneOpt, outcome)>>,
     result |-> IF outcome = "ok" THEN Ok(bus[prop]) ELSE Err(outcome),
     props |-> bus]

\* bluetooth_utils::set_property: one property write on the connection
bluetooth_utils_set_property(bus, interface, object_path, prop, value, timeout_ms, outcome) ==
    [calls |-> <<BusCall("Set", interface, object_path, prop, <<value>>,
                        Some(timeout_ms), outcome)>>,
     result |-> IF outcome = "ok" THEN Ok("unit") ELSE Err(outcome),
     props |-> IF outcome = "ok" THEN [bus EXCEPT ![prop] = value] ELSE bus]

\* bluetooth_utils::call_method: one method call on the connection
bluetooth_utils_call_method(bus, interface, object_path, method, param, timeout_ms, outcome) ==
    [calls |-> <<BusCall("Call", interface, object_path, method, param,
                        Some(timeout_ms), outcome)>>,
     result |-> IF outcome = "ok" THEN Ok([reply_to |-> method]) ELSE Err(outcome),
     props |-> bus]

\* get_property that asks the bus a second time when the first read fails
get_property_retry(self, bus, prop, outcomes) ==
    LET first == bluetooth_utils_get_property(bus, ADAPTER_INTERFACE, self.object_path,
                                              prop, outcomes[1])
        second == bluetooth_utils_get_property(bus, ADAPTER_INTERFACE, self.object_path,
                                               prop, outcomes[2])
    IN  IF first.result.kind = "Ok"
        THEN first
        ELSE [second EXCEPT !.calls = first.calls \o second.calls]

\* BluetoothAdapter::get_property
get_property(self, bus, prop, outcomes) ==
    bluetooth_utils_get_property(bus, ADAPTER_INTERFACE, self.object_path, prop, outcomes[1])

\* BluetoothAdapter::set_property
set_property(self, bus, prop, value, timeout_ms, outcomes) ==
    bluetooth_utils_set_property(bus, ADAPTER_INTERFACE, self.object_path, prop, value,
                                 timeout_ms, outcomes[1])

\* BluetoothAdapter::call_method
call_method(self, bus, method, param, timeout_ms, outcomes) ==
    bluetooth_utils_call_method(bus, ADAPTER_INTERFACE, self.object_path, method, param,
                                timeout_ms, outcomes[1])

PayloadOf(item) ==
    CASE item.tag = "Bool" -> item.b
      [] item.tag = "String" -> item.s
      [] item.tag = "UInt32" -> item.w
      [] item.tag = "Array" -> item.a
      [] OTHER -> "unit"

\* ok_or_str!(item.inner::<T>()): the payload when the item has T's tag, an
\* error otherwise
ok_or_str_inner(item, tag) ==
    IF item.tag = tag THEN Ok(PayloadOf(item)) ELSE Err("TypeDecodeFailure")

\* let x = self.get_property(prop)?; ok_or_str!(x.inner::<T>())
typed_get(self, bus, prop, tag, outcomes) ==
    LET r == get_property(self, bus, prop, outcomes) IN
    IF r.result.kind = "Err"
    THEN r
    ELSE [r EXCEPT !.result = ok_or_str_inner(r.result.val, tag)]

\* the loop of get_uuids over the items of the array
RECURSIVE uuid_strings(_)
uuid_strings(z) ==
    IF z = <<>>
    THEN Ok(<<>>)
    ELSE IF ok_or_str_inner(Head(z), "String").kind = "Err"
    THEN ok_or_str_inner(Head(z), "String")
    ELSE IF uuid_strings(Tail(z)).kind = "Err"
    THEN uuid_strings(Tail(z))
    ELSE Ok(<<Head(z).s>> \o uuid_strings(Tail(z)).val)

\* BluetoothAdapter::get_modalias
get_modalias_op(self, bus, outcomes) ==
    LET r == typed_get(self, bus, "Modalias", "String", outcomes) IN
    IF r.result.kind = "Err"
    THEN r
    ELSE [r EXCEPT !.result = parse_modalias(r.result.val)]

\* let (.., x, ..) = self.get_modalias()?; Ok(x)
modalias_field(self, bus, i, outcomes) ==
    LET r == get_modalias_op(self, bus, outcomes) IN
    IF r.result.kind = "Ok"
    THEN [r EXCEPT !.result = Ok(r.result.val[i])]
    ELSE r

(***************************************************************************)
(* The accessors as operations on the adapter.  last_op records the call   *)
(* and the timeout the accessor hands down, bus_log the round trips the    *)
(* call made, result what the caller got back, ncalls how many calls the   *)
(* caller has made.  A panic leaves the stored properties as they are and  *)
(* is recorded as the call's result.                                       *)
(***************************************************************************)
Call(op, timeout_ms, r) ==
    /\ ncalls < MaxCalls
    /\ ncalls' = ncalls + 1
    /\ last_op' = [op |-> op, timeout_ms |-> timeout_ms]
    /\ bus_log' = r.calls
    /\ result' = r.result
    /\ props' = r.props
    /\ UNCHANGED <<conn_msg, event, pc, adapter>>

get_address ==
    \E o \in OutcomeSeqs :
        Call("get_address", NoneOpt, typed_get(adapter, props, "Address", "String", o))

get_name ==
    \E o \in OutcomeSeqs :
        Call("get_name", NoneOpt, typed_get(adapter, props, "Name", "String", o))

get_alias ==
    \E o \in OutcomeSeqs :
        Call("get_alias", NoneOpt, typed_get(adapter, props, "Alias", "String", o))

set_alias ==
    \E o \in OutcomeSeqs, value \in {"hci0", "kitchen"} :
        Call("set_alias", Some(1000),
             set_property(adapter, props, "Alias", VString(value), 1000, o))

get_class ==
    \E o \in OutcomeSeqs :
        Call("get_class", NoneOpt, typed_get(adapter, props, "Class", "UInt32", o))

is_powered ==
    \E o \in OutcomeSeqs :
        Call("is_powered", NoneOpt, typed_get(adapter, props, "Powered", "Bool", o))

set_powered ==
    \E o \in OutcomeSeqs, value \in BOOLEAN :
        Call("set_powered", Some(10000),
             set_property(adapter, props, "Powered", VBool(value), 10000, o))

is_discoverable ==
    \E o \in OutcomeSeqs :
        Call("is_discoverable", NoneOpt,
             typed_get(adapter, props, "Discoverable", "Bool", o))

set_discoverable ==
    \E o \in OutcomeSeqs, value \in BOOLEAN :
        Call("set_discoverable", Some(1000),
             set_property(adapter, props, "Discoverable", VBool(value), 1000, o))

is_pairable ==
    \E o \in OutcomeSeqs :
        Call("is_pairable", NoneOpt, typed_get(adapter, props, "Pairable", "Bool", o))

set_pairable ==
    \E o \in OutcomeSeqs, value \in BOOLEAN :
        Call("set_pairable", Some(1000),
             set_property(adapter, props, "Pairable", VBool(value), 1000, o))

get_pairable_timeout ==
    \E o \in OutcomeSeqs :
        Call("get_pairable_timeout", NoneOpt,
             typed_get(adapter, props, "PairableTimeout", "UInt32", o))

set_pairable_timeout ==
    \E o \in OutcomeSeqs, value \in {0, 180} :
        Call("set_pairable_timeout", Some(1000),
             set_property(adapter, props, "PairableTimeout", VUInt32(value), 1000, o))

get_discoverable_timeout ==
    \E o \in OutcomeSeqs :
        Call("get_discoverable_timeout", NoneOpt,
             typed_get(adapter, props, "DiscoverableTimeout", "UInt32", o))

set_discoverable_timeout ==
    \E o \in OutcomeSeqs, value \in {0, 180} :
        Call("set_discoverable_timeout", Some(1000),
             set_property(adapter, props, "DiscoverableTimeout", VUInt32(value), 1000, o))

is_discovering ==
    \E o \in OutcomeSeqs :
        Call("is_discovering", NoneOpt,
             typed_get(adapter, props, "Discovering", "Bool", o))

get_uuids ==
    \E o \in OutcomeSeqs :
        LET r == typed_get(adapter, props, "UUIDs", "Array", o) IN
        Call("get_uuids", NoneOpt,
             IF r.result.kind = "Err"
             THEN r
             ELSE [r EXCEPT !.result = uuid_strings(r.result.val)])

get_modalias ==
    \E o \in OutcomeSeqs :
        Call("get_modalias", NoneOpt, get_modalias_op(adapter, props, o))

get_vendor_id_source ==
    \E o \in OutcomeSeqs :
        Call("get_vendor_id_source", NoneOpt, modalias_field(adapter, props, 1, o))

get_vendor_id ==
    \E o \in OutcomeSeqs :
        Call("get_vendor_id", NoneOpt, modalias_field(adapter, props, 2, o))

get_product_id ==
    \E o \in OutcomeSeqs :
        Call("get_product_id", NoneOpt, modalias_field(adapter, props, 3, o))

get_device_id ==
    \E o \in OutcomeSeqs :
        Call("get_device_id", NoneOpt, modalias_field(adapter, props, 4, o))

remove_device ==
    \E o \in OutcomeSeqs, device \in {"/org/bluez/hci0/dev_00_11"} :
        LET r == call_method(adapter, props, "RemoveDevice",
                             <<VObjectPath(device)>>, 1000, o)
        IN  Call("remove_device", Some(1000),
                 IF r.result.kind = "Ok" THEN [r EXCEPT !.result = Ok("unit")] ELSE r)

connect_device ==
    \E o \in OutcomeSeqs, address \in {"00:11:22:33:44:55"},
       address_type \in {"Public", "Random"}, timeout_ms \in {500, 30000} :
        Call("connect_device", Some(timeout_ms),
             call_method(adapter, props, "ConnectDevice",
                         <<VDict([Address |-> VString(address),
                                  AddressType |-> VString(IF address_type = "Public"
                                                          THEN "public" ELSE "random")])>>,
                         timeout_ms, o))

InitEvent ==
    /\ conn_msg \in Messages
    /\ event = NoneOpt
    /\ pc = "ready"
    /\ adapter = [object_path |-> "/org/bluez/hci0"]
    /\ props = <<>>
    /\ bus_log = <<>>
    /\ last_op = [op |-> "none", timeout_ms |-> NoneOpt]
    /\ result = Ok("unit")
    /\ ncalls = 0

\* The listener hands the signal to BluetoothEvent::from.
From ==
    /\ pc = "ready"
    /\ event' = BluetoothEvent_from(conn_msg)
    /\ pc' = "done"
    /\ UNCHANGED <<conn_msg, adapter, props, bus_log, last_op, result, ncalls>>

NextEvent == From

SpecEvent == InitEvent /\ [][NextEvent]_vars

(***************************************************************************)
(* Modalias strings the daemon may hold: a source, then either nothing or  *)
(* a colon, three letter-prefixed fields and a tail.  Fields of the wrong  *)
(* length or with a non-hex character make the malformed strings.          *)
(***************************************************************************)
VArray(a) == [tag |-> "Array", a |-> a]

Sources ==
    {<<"S">>, <<"S", "O", "U", "R", "C", "E">>,
     <<"b", "a", "d", "-", "s", "t", "r", "i", "n", "g">>}

Fields ==
    {<<"1", "2", "3", "4">>, <<"5", "6", "7", "8">>, <<"A", "B", "C", "D">>,
     <<"0", "a", "f", "F">>, <<"1", "2", "g", "4">>, <<"1", "2">>}

TailChars == {"0", ":"}

Tails == UNION {[1..n -> TailChars] : n \in 0..MaxTailLen}

\* the letters in front of the three fields: the format's, and wrong ones
Letters == {<<"v", "p", "d">>, <<"x", "y", "z">>, <<"v", "y", "d">>}

ModaliasStrings ==
    Sources \cup
    {s \o <<":", l[1]>> \o f1 \o <<l[2]>> \o f2 \o <<l[3]>> \o f3 \o t :
        s \in Sources, l \in Letters, f1 \in Fields, f2 \in Fields,
        f3 \in Fields, t \in Tails}

BaseProps ==
    [Address |-> VString("00:1A:7D:DA:71:13"),
     Name |-> VString("host"),
     Alias |-> VString("hci0"),
     Class |-> VUInt32(1050880),
     Powered |-> VBool(TRUE),
     Discoverable |-> VBool(FALSE),
     Pairable |-> VBool(TRUE),
     PairableTimeout |-> VUInt32(0),
     DiscoverableTimeout |-> VUInt32(180),
     Discovering |-> VBool(FALSE),
     UUIDs |-> VArray(<<VString("1800"), VString("1801")>>),
     Modalias |-> VString(<<"u", "s", "b", ":", "v", "1", "D", "6", "B", "p", "0", "2",
                            "4", "6", "d", "0", "5", "3", "7">>)]

\* a daemon whose Class, Powered and UUIDs do not have the expected types
OddProps ==
    [BaseProps EXCEPT !.Class = VString("0x100900"),
                      !.Powered = VString("on"),
                      !.UUIDs = VArray(<<VString("1800"), VUInt32(6145)>>)]

IdleEvent ==
    /\ conn_msg = [body |-> <<>>, path |-> NoneOpt]
    /\ event = NoneOpt
    /\ pc = "idle"

InitModalias ==
    /\ IdleEvent
    /\ adapter = [object_path |-> "/org/bluez/hci0"]
    /\ props \in {[BaseProps EXCEPT !.Modalias = v] :
                    v \in {VString(m) : m \in ModaliasStrings} \cup {VUInt32(0)}}
    /\ bus_log = <<>>
    /\ last_op = [op |-> "none", timeout_ms |-> NoneOpt]
    /\ result = Ok("unit")
    /\ ncalls = 0

NextModalias == get_modalias

SpecModalias == InitModalias /\ [][NextModalias]_vars

InitAdapter ==
    /\ IdleEvent
    /\ adapter \in {[object_path |-> p] : p \in {"/org/bluez/hci0", "/org/bluez/hci1"}}
    /\ props \in {[b EXCEPT !.Modalias = v] :
                    b \in {BaseProps, OddProps},
                    v \in {BaseProps.Modalias,
                           VString(<<"b", "a", "d", "-", "s", "t", "r", "i", "n", "g">>),
                           VUInt32(0)}}
    /\ bus_log = <<>>
    /\ last_op = [op |-> "none", timeout_ms |-> NoneOpt]
    /\ result = Ok("unit")
    /\ ncalls = 0

NextAdapter ==
    \/ get_address
    \/ get_name
    \/ get_alias
    \/ set_alias
    \/ get_class
    \/ is_powered
    \/ set_powered
    \/ is_discoverable
    \/ set_discoverable
    \/ is_pairable
    \/ set_pairable
    \/ get_pairable_timeout
    \/ set_pairable_timeout
    \/ get_discoverable_timeout
    \/ set_discoverable_timeout
    \/ is_discovering
    \/ get_uuids
    \/ get_modalias
    \/ get_vendor_id_source
    \/ get_vendor_id
    \/ get_product_id
    \/ get_device_id
    \/ remove_device
    \/ connect_device

SpecAdapter == InitAdapter /\ [][NextAdapter]_vars

(***************************************************************************)
(* Properties of the classifier.                                           *)
(***************************************************************************)
\* The signal has the (interface-name, property-bag) shape.
HasShape(msg) ==
    /\ Len(msg.body) >= 2
    /\ msg.body[1].tag = "String"
    /\ msg.body[2].tag = "DictSV"

BagOf(msg) == msg.body[2].d

Priority == <<"Powered", "Discovering", "Connected", "ServicesResolved", "Value", "RSSI">>

ExpectedTag == <<"Bool", "Bool", "Bool", "Bool", "Bytes", "Int16">>

Present(bag, i) == Priority[i] \in DOMAIN bag

RightTag(bag, i) == Present(bag, i) /\ bag[Priority[i]].tag = ExpectedTag[i]

WrongTag(bag, i) == Present(bag, i) /\ bag[Priority[i]].tag # ExpectedTag[i]

\* Index of the first name in priority order present with its tag, 0 if none.
Winner(bag) ==
    IF \E i \in 1..Len(Priority) : RightTag(bag, i)
    THEN CHOOSE i \in 1..Len(Priority) :
            RightTag(bag, i) /\ \A j \in 1..(i - 1) : ~RightTag(bag, j)
    ELSE 0

WinnerVariant(bag) == IF Winner(bag) = 0 THEN "None" ELSE Priority[Winner(bag)]

Payload(v) ==
    CASE v.tag = "Bool" -> v.b
      [] v.tag = "Bytes" -> v.y
      [] v.tag = "Int16" -> v.i

EventPayload(e) ==
    CASE e.variant = "Powered" -> e.powered
      [] e.variant = "Discovering" -> e.discovering
      [] e.variant = "Connected" -> e.connected
      [] e.variant = "ServicesResolved" -> e.services_resolved
      [] e.variant = "Value" -> e.value
      [] e.variant = "RSSI" -> e.rssi

Classified == pc = "done" /\ HasShape(conn_msg) /\ conn_msg.path.some

\* C1: for a decodable signal with a path, the emitted variant is that of
\* the first name in the order Powered, Discovering, Connected,
\* ServicesResolved, Value, RSSI that is present with its expected tag;
\* Powered=true with Discovering=true yields Powered.
C1_PriorityOrder ==
    Classified =>
        /\ Winner(BagOf(conn_msg)) > 0 =>
              /\ event.some
              /\ event.val.variant = Priority[Winner(BagOf(conn_msg))]
        /\ ( /\ "Powered" \in DOMAIN BagOf(conn_msg)
             /\ "Discovering" \in DOMAIN BagOf(conn_msg)
             /\ BagOf(conn_msg)["Powered"] = VBool(TRUE)
             /\ BagOf(conn_msg)["Discovering"] = VBool(TRUE) ) =>
              event.some /\ event.val.variant = "Powered"

C1_Witness ==
    /\ Classified
    /\ {"Powered", "Discovering", "Alias"} \subseteq DOMAIN BagOf(conn_msg)
    /\ BagOf(conn_msg)["Powered"] = VBool(TRUE)
    /\ BagOf(conn_msg)["Discovering"] = VBool(TRUE)
    /\ event.some
    /\ event.val.variant = "Powered"

\* C2: a recognized name present with the wrong tag is skipped: the
\* classification still returns an event, never the variant of the wrongly
\* tagged name, and the result is that of the first correctly tagged name;
\* Powered=String("x") with Discovering=false yields Discovering{path, false}.
C2_WrongTagSkipped ==
    Classified =>
        /\ \A i \in 1..Len(Priority) :
              WrongTag(BagOf(conn_msg), i) =>
                  /\ event.some
                  /\ event.val.variant # Priority[i]
                  /\ event.val.variant = WinnerVariant(BagOf(conn_msg))
        /\ ( /\ "Powered" \in DOMAIN BagOf(conn_msg)
             /\ "Discovering" \in DOMAIN BagOf(conn_msg)
             /\ BagOf(conn_msg)["Powered"] = VString("x")
             /\ BagOf(conn_msg)["Discovering"] = VBool(FALSE) ) =>
              event = Some([variant |-> "Discovering",
                            object_path |-> conn_msg.path.val,
                            discovering |-> FALSE])

C2_Witness ==
    /\ Classified
    /\ "Powered" \in DOMAIN BagOf(conn_msg)
    /\ "Discovering" \in DOMAIN BagOf(conn_msg)
    /\ BagOf(conn_msg)["Powered"] = VString("x")
    /\ BagOf(conn_msg)["Discovering"] = VBool(FALSE)
    /\ event = Some([variant |-> "Discovering",
                     object_path |-> conn_msg.path.val,
                     discovering |-> FALSE])

\* C3 as stated: every decodable signal whose bag holds no recognized name
\* with a matching tag yields Some(BluetoothEvent::None).
C3_Original ==
    (pc = "done" /\ HasShape(conn_msg) /\ Winner(BagOf(conn_msg)) = 0) =>
        event = Some(NoEvent)

\* C3 amended: every decodable signal that carries an object path and whose
\* bag holds no recognized name with a matching tag yields
\* Some(BluetoothEvent::None).
C3_NothingRecognized ==
    (Classified /\ Winner(BagOf(conn_msg)) = 0) => event = Some(NoEvent)

C3_Witness ==
    /\ Classified
    /\ DOMAIN BagOf(conn_msg) = {"Alias"}
    /\ event = Some(NoEvent)

\* C4 as stated: an undecodable signal yields the absent result, the absent
\* result is returned only for signals without the expected shape, and
\* BluetoothEvent::None only for signals with it.
C4_Original ==
    pc = "done" =>
        /\ ~HasShape(conn_msg) => event = NoneOpt
        /\ event = NoneOpt => ~HasShape(conn_msg)
        /\ event = Some(NoEvent) => HasShape(conn_msg)

\* C4 amended: an undecodable signal yields the absent result, the absent
\* result is returned only for signals without the expected shape or
\* without an object path, and BluetoothEvent::None only for signals that
\* have the expected shape.
C4_AbsentOnlyUndecodable ==
    pc = "done" =>
        /\ ~HasShape(conn_msg) => event = NoneOpt
        /\ event = NoneOpt => (~HasShape(conn_msg) \/ ~conn_msg.path.some)
        /\ event = Some(NoEvent) => HasShape(conn_msg)

C4_Witness ==
    /\ pc = "done"
    /\ ~HasShape(conn_msg)
    /\ Len(conn_msg.body) >= 2
    /\ conn_msg.path.some
    /\ event = NoneOpt

\* C5: every emitted event other than BluetoothEvent::None carries the
\* signal's own object path and the value stored in the bag under the
\* winning name; a bag holding exactly Powered=Boolean(b) yields
\* Powered{object_path = signal path, powered = b}.
C5_PathAndPayload ==
    pc = "done" =>
        /\ (event.some /\ event.val.variant # "None") =>
              /\ conn_msg.path.some
              /\ event.val.object_path = conn_msg.path.val
              /\ event.val.variant \in DOMAIN BagOf(conn_msg)
              /\ EventPayload(event.val) = Payload(BagOf(conn_msg)[event.val.variant])
        /\ \A b \in BOOLEAN :
              (Classified /\ BagOf(conn_msg) = [n \in {"Powered"} |-> VBool(b)]) =>
                  event = Some([variant |-> "Powered",
                                object_path |-> conn_msg.path.val,
                                powered |-> b])

C5_Witness ==
    /\ Classified
    /\ DOMAIN BagOf(conn_msg) = {"Powered", "Adapter"}
    /\ BagOf(conn_msg)["Powered"] = VBool(FALSE)
    /\ event = Some([variant |-> "Powered",
                     object_path |-> conn_msg.path.val,
                     powered |-> FALSE])

\* C9: a signal that decodes into (interface-name, property-bag) but has
\* no object path yields the absent result whatever the bag holds, so
\* BluetoothEvent::None is never returned for a signal without a path.
C9_NoPathAbsent ==
    pc = "done" =>
        /\ (HasShape(conn_msg) /\ ~conn_msg.path.some) => event = NoneOpt
        /\ event = Some(NoEvent) => conn_msg.path.some

C9_Witness ==
    /\ pc = "done"
    /\ HasShape(conn_msg)
    /\ ~conn_msg.path.some
    /\ Winner(BagOf(conn_msg)) = 0
    /\ event = NoneOpt

(***************************************************************************)
(* Properties of the Modalias parser.                                      *)
(***************************************************************************)
LowerHex == <<"0", "1", "2", "3", "4", "5", "6", "7", "8", "9", "a", "b", "c", "d", "e", "f">>

UpperHex == <<"0", "1", "2", "3", "4", "5", "6", "7", "8", "9", "A", "B", "C", "D", "E", "F">>

IsHexDigit(c) == \E v \in 1..16 : c = LowerHex[v] \/ c = UpperHex[v]

DigitValue(c) == (CHOOSE v \in 1..16 : c = LowerHex[v] \/ c = UpperHex[v]) - 1

HasColon(m) == \E i \in 1..Len(m) : m[i] = ":"

FirstColon(m) == CHOOSE i \in 1..Len(m) : m[i] = ":" /\ \A j \in 1..(i - 1) : m[j] # ":"

\* the text after the first colon
AfterColon(m) == SubSeq(m, FirstColon(m) + 1, Len(m))

\* the text between the first colon and the second colon or the end
Segment(m) ==
    IF HasColon(AfterColon(m))
    THEN SubSeq(AfterColon(m), 1, FirstColon(AfterColon(m)) - 1)
    ELSE AfterColon(m)

\* the 16-bit value of the four hex digits of s that start at 0-based offset a
Hex16(s, a) ==
    DigitValue(s[a + 1]) * 4096 + DigitValue(s[a + 2]) * 256
        + DigitValue(s[a + 3]) * 16 + DigitValue(s[a + 4])

HexAt(s, a) == \A i \in (a + 1)..(a + 4) : IsHexDigit(s[i])

\* <source>:vHHHHpHHHHdHHHH
WellFormed(m) ==
    /\ HasColon(m)
    /\ Len(AfterColon(m)) = 15
    /\ AfterColon(m)[1] = "v" /\ AfterColon(m)[6] = "p" /\ AfterColon(m)[11] = "d"
    /\ HexAt(AfterColon(m), 1) /\ HexAt(AfterColon(m), 6) /\ HexAt(AfterColon(m), 11)

\* no colon, or the part after the colon too short or not hexadecimal at
\* the offsets 1..5, 6..10, 11..15
Malformed(m) ==
    \/ ~HasColon(m)
    \/ Len(AfterColon(m)) < 15
    \/ ~HexAt(AfterColon(m), 1) \/ ~HexAt(AfterColon(m), 6) \/ ~HexAt(AfterColon(m), 11)

\* get_modalias was called, the bus answered and the answer was a string
ModaliasParsed ==
    /\ last_op.op = "get_modalias"
    /\ Len(bus_log) >= 1
    /\ bus_log[1].outcome = "ok"
    /\ props.Modalias.tag = "String"

ExampleModalias ==
    <<"S", "O", "U", "R", "C", "E", ":", "v", "1", "2", "3", "4", "p", "5", "6", "7", "8",
      "d", "A", "B", "C", "D">>

ExampleTuple == <<(<<"S", "O", "U", "R", "C", "E">>), 4660, 22136, 43981>>

\* C6: a string of the form <source>:vHHHHpHHHHdHHHH parses to the text
\* before the colon and the 16-bit values (0..65535) of the three groups of
\* four hex digits; "SOURCE:v1234p5678dABCD" gives
\* ("SOURCE", 0x1234, 0x5678, 0xABCD).
C6_WellFormedParses ==
    ModaliasParsed =>
        /\ WellFormed(props.Modalias.s) =>
              /\ result = Ok(<<SubSeq(props.Modalias.s, 1, FirstColon(props.Modalias.s) - 1),
                               Hex16(AfterColon(props.Modalias.s), 1),
                               Hex16(AfterColon(props.Modalias.s), 6),
                               Hex16(AfterColon(props.Modalias.s), 11)>>)
              /\ \A i \in 2..4 : result.val[i] \in 0..65535
        /\ props.Modalias.s = ExampleModalias => result = Ok(ExampleTuple)

C6_Witness ==
    /\ ModaliasParsed
    /\ props.Modalias.s = ExampleModalias
    /\ result = Ok(ExampleTuple)

\* C7: a string with no colon, or with the part after the colon too short
\* or not hexadecimal at the field offsets, makes get_modalias return an
\* error value; it neither crashes nor returns a tuple.
C7_MalformedIsError ==
    (ModaliasParsed /\ Malformed(props.Modalias.s)) => result.kind = "Err"

\* C10: the result depends only on the text before the first colon and on
\* the characters at offsets 1..5, 6..10, 11..15 of the segment after it:
\* changing the characters at offsets 0, 5, 10 or appending characters or
\* segments after offset 15 leaves the result as it is, and hex digits at
\* the field offsets are accepted whatever the letters at 0, 5, 10.
C10_OnlyFieldOffsetsMatter ==
    (ModaliasParsed /\ HasColon(props.Modalias.s) /\ Len(Segment(props.Modalias.s)) >= 15) =>
        /\ \A pos \in {0, 5, 10}, c \in {"v", "p", "d", "x", "0", "-"} :
              parse_modalias([props.Modalias.s EXCEPT
                                ![FirstColon(props.Modalias.s) + 1 + pos] = c]) = result
        /\ \A t \in {<<"Z">>, <<":", "v">>, <<"0", "0", ":">>} :
              parse_modalias(props.Modalias.s \o t) = result
        /\ ( /\ HexAt(Segment(props.Modalias.s), 1)
             /\ HexAt(Segment(props.Modalias.s), 6)
             /\ HexAt(Segment(props.Modalias.s), 11) ) =>
              result = Ok(<<SubSeq(props.Modalias.s, 1, FirstColon(props.Modalias.s) - 1),
                            Hex16(Segment(props.Modalias.s), 1),
                            Hex16(Segment(props.Modalias.s), 6),
                            Hex16(Segment(props.Modalias.s), 11)>>)

C10_Witness ==
    /\ ModaliasParsed
    /\ props.Modalias.s = <<"S", ":", "x", "1", "2", "3", "4", "y", "5", "6", "7", "8",
                            "z", "A", "B", "C", "D">>
    /\ result = Ok(<<(<<"S">>), 4660, 22136, 43981>>)

(***************************************************************************)
(* Properties of the accessors.                                            *)
(***************************************************************************)
Setters ==
    {"set_alias", "set_powered", "set_discoverable", "set_pairable",
     "set_pairable_timeout", "set_discoverable_timeout"}

\* C8: every accessor makes exactly one bus round trip, on the adapter
\* interface and the adapter's own object path, with the timeout handed to
\* it, and a failed round trip is returned to the caller as the failure it
\* was, with no second round trip.
C8_OneRoundTrip ==
    last_op.op # "none" =>
        /\ Len(bus_log) = 1
        /\ bus_log[1].interface = "org.bluez.Adapter1"
        /\ bus_log[1].object_path = adapter.object_path
        /\ bus_log[1].timeout_ms = last_op.timeout_ms
        /\ last_op.op = "set_powered" => bus_log[1].timeout_ms = Some(10000)
        /\ last_op.op \in (Setters \ {"set_powered"}) \cup {"remove_device"} =>
              bus_log[1].timeout_ms = Some(1000)
        /\ bus_log[1].outcome # "ok" => result = Err(bus_log[1].outcome)

C8_Witness ==
    /\ last_op.op = "set_powered"
    /\ Len(bus_log) = 1
    /\ bus_log[1].outcome = "Timeout"
    /\ bus_log[1].timeout_ms = Some(10000)
    /\ result = Err("Timeout")

====
